---- MODULE Spec2Model ----
(***************************************************************************)
(* burn-buyer: buying a token from a bonding-curve market and burning      *)
(* tokens.  The model covers the account decoders (fetchGlobalState,       *)
(* fetchBondingCurve), the pricing function (calculateTokensOut) and the   *)
(* two public entry points (buyToken, burnTokens) of src/burnBuyer.ts.     *)
(***************************************************************************)
EXTENDS Integers, Sequences, FiniteSets, TLC

(***************************************************************************)
(* BN: the arbitrary-precision integers of bn.js that the source uses for  *)
(* every on-chain amount.  A BN is a sign flag and a little-endian         *)
(* sequence of limbs; the limbs here are base 10^4 (bn.js: 2^26) so that   *)
(* a product of two limbs stays inside TLC's integers.  Zero is the empty  *)
(* limb sequence and is never negative.                                    *)
(***************************************************************************)
WordBase == 100 * 100

Limb(a, i) == IF i <= Len(a) THEN a[i] ELSE 0

RECURSIVE MagNorm(_)
MagNorm(a) ==
  IF a = <<>> THEN <<>>
  ELSE IF a[Len(a)] = 0 THEN MagNorm(SubSeq(a, 1, Len(a) - 1)) ELSE a

RECURSIVE MagCmpFrom(_, _, _)
MagCmpFrom(a, b, i) ==
  IF i = 0 THEN 0
  ELSE IF a[i] < b[i] THEN -1
  ELSE IF a[i] > b[i] THEN 1
  ELSE MagCmpFrom(a, b, i - 1)

\* -1, 0 or 1 as a < b, a = b, a > b (both normalised)
MagCmp(a, b) ==
  IF Len(a) < Len(b) THEN -1
  ELSE IF Len(a) > Len(b) THEN 1
  ELSE MagCmpFrom(a, b, Len(a))

RECURSIVE MagAddC(_, _, _, _)
MagAddC(a, b, i, carry) ==
  IF i > Len(a) /\ i > Len(b)
  THEN IF carry = 0 THEN <<>> ELSE <<carry>>
  ELSE LET s == Limb(a, i) + Limb(b, i) + carry
       IN  <<s % WordBase>> \o MagAddC(a, b, i + 1, s \div WordBase)

MagAdd(a, b) == MagAddC(a, b, 1, 0)

RECURSIVE MagSubB(_, _, _, _)
MagSubB(a, b, i, borrow) ==
  IF i > Len(a) THEN <<>>
  ELSE LET d == Limb(a, i) - Limb(b, i) - borrow
       IN  IF d < 0 THEN <<d + WordBase>> \o MagSubB(a, b, i + 1, 1)
           ELSE <<d>> \o MagSubB(a, b, i + 1, 0)

\* a - b for a >= b
MagSub(a, b) == MagNorm(MagSubB(a, b, 1, 0))

RECURSIVE MagMulSmallC(_, _, _, _)
MagMulSmallC(a, k, i, carry) ==
  IF i > Len(a)
  THEN IF carry = 0 THEN <<>> ELSE <<carry>>
  ELSE LET p == a[i] * k + carry
       IN  <<p % WordBase>> \o MagMulSmallC(a, k, i + 1, p \div WordBase)

\* a * k for a limb k
MagMulSmall(a, k) == MagNorm(MagMulSmallC(a, k, 1, 0))

RECURSIVE MagShift(_, _)
MagShift(a, n) == IF a = <<>> \/ n = 0 THEN a ELSE MagShift(<<0>> \o a, n - 1)

RECURSIVE MagMulR(_, _, _)
MagMulR(a, b, i) ==
  IF i > Len(b) THEN <<>>
  ELSE MagAdd(MagShift(MagMulSmall(a, b[i]), i - 1), MagMulR(a, b, i + 1))

MagMul(a, b) == MagNorm(MagMulR(a, b, 1))

\* the largest limb d in lo..hi with b * d <= r
RECURSIVE QSearch(_, _, _, _)
QSearch(r, b, lo, hi) ==
  IF lo = hi THEN lo
  ELSE LET mid == (lo + hi + 1) \div 2
       IN  IF MagCmp(MagMulSmall(b, mid), r) <= 0
           THEN QSearch(r, b, mid, hi)
           ELSE QSearch(r, b, lo, mid - 1)

\* floor(r / b) for r < b * WordBase: the quotient lies between the
\* quotients of the leading limbs of r by the leading limb of b (plus one)
QDigit(r, b) ==
  LET n  == Len(b)
      rt == Limb(r, n + 1) * WordBase + Limb(r, n)
      lo == rt \div (b[n] + 1)
      q  == rt \div b[n]
      hi == IF q > WordBase - 1 THEN WordBase - 1 ELSE q
  IN  IF MagCmp(MagMulSmall(b, hi), r) <= 0 THEN hi
      ELSE QSearch(r, b, lo, hi - 1)

\* long division of the limbs a[1..i] (rem holds the limbs above), b # 0
RECURSIVE MagDivStep(_, _, _, _)
MagDivStep(a, b, i, rem) ==
  IF i = 0 THEN [q |-> <<>>, r |-> rem]
  ELSE LET r1   == MagNorm(<<a[i]>> \o rem)
           d    == QDigit(r1, b)
           rest == MagDivStep(a, b, i - 1, MagSub(r1, MagMulSmall(b, d)))
       IN  [q |-> rest.q \o <<d>>, r |-> rest.r]

\* floor(a / b) on magnitudes, b # 0
MagDiv(a, b) == MagNorm(MagDivStep(a, b, Len(a), <<>>).q)

RECURSIVE MagFromNat(_)
MagFromNat(n) ==
  IF n = 0 THEN <<>> ELSE <<n % WordBase>> \o MagFromNat(n \div WordBase)

RECURSIVE MagToNat(_)
MagToNat(a) == IF a = <<>> THEN 0 ELSE a[1] + WordBase * MagToNat(Tail(a))

BNmake(neg, mag) == [negative |-> IF mag = <<>> THEN 0 ELSE neg, words |-> mag]

\* new BN(number)
BNfromNumber(n) ==
  IF n < 0 THEN BNmake(1, MagFromNat(0 - n)) ELSE BNmake(0, MagFromNat(n))

\* BN.toNumber() / the value of a BN that fits TLC's integers
BNtoNumber(x) == IF x.negative = 1 THEN 0 - MagToNat(x.words) ELSE MagToNat(x.words)

BNisZero(x) == x.words = <<>>
BNisNeg(x) == x.negative = 1

\* BN.cmp
BNcmp(x, y) ==
  IF x.negative = 1 /\ y.negative = 0 THEN -1
  ELSE IF x.negative = 0 /\ y.negative = 1 THEN 1
  ELSE IF x.negative = 1 THEN MagCmp(y.words, x.words)
  ELSE MagCmp(x.words, y.words)

BNneg(x) == BNmake(1 - x.negative, x.words)

\* BN.add
BNadd(x, y) ==
  IF x.negative = y.negative THEN BNmake(x.negative, MagAdd(x.words, y.words))
  ELSE IF MagCmp(x.words, y.words) >= 0
       THEN BNmake(x.negative, MagSub(x.words, y.words))
       ELSE BNmake(y.negative, MagSub(y.words, x.words))

\* BN.sub: never throws, the result may be negative
BNsub(x, y) == BNadd(x, BNneg(y))

\* BN.mul
BNmul(x, y) ==
  BNmake(IF x.negative = y.negative THEN 0 ELSE 1, MagMul(x.words, y.words))

\* BN.div for y # 0: the quotient truncated towards zero
BNdiv(x, y) ==
  BNmake(IF x.negative = y.negative THEN 0 ELSE 1, MagDiv(x.words, y.words))

(***************************************************************************)
(* Pricing (calculateTokensOut).  The result is a BN, or ArithError when   *)
(* bn.js throws (its division asserts a non-zero divisor).                 *)
(***************************************************************************)
ArithError == [error |-> "Assertion failed"]

IsError(v) == "error" \in DOMAIN v

\* mutant: the fee divided by 1000 instead of 10000
FeeOf_WrongDivisor(solIn, feeBasisPoints) ==
  BNdiv(BNmul(solIn, feeBasisPoints), BNfromNumber(1000))

\* fee = solIn.mul(feeBasisPoints).div(new BN(10000))
FeeOf(solIn, feeBasisPoints) ==
  BNdiv(BNmul(solIn, feeBasisPoints), BNfromNumber(10000))

\* solInAfterFee = solIn.sub(fee)
SolInAfterFee(solIn, feeBasisPoints) == BNsub(solIn, FeeOf(solIn, feeBasisPoints))

\* mutant: the fee is not deducted from the input before the swap
calculateTokensOut_FeeNotDeducted(bondingCurve, solIn, feeBasisPoints) ==
  LET newVirtualSolReserves == BNadd(bondingCurve.virtualSolReserves, solIn)
  IN  IF BNisZero(newVirtualSolReserves) THEN ArithError
      ELSE BNsub(bondingCurve.virtualTokenReserves,
                 BNdiv(BNmul(bondingCurve.virtualSolReserves,
                             bondingCurve.virtualTokenReserves),
                       newVirtualSolReserves))

calculateTokensOut(bondingCurve, solIn, feeBasisPoints) ==
  LET solInAfterFee == SolInAfterFee(solIn, feeBasisPoints)
      virtualSolReserves == bondingCurve.virtualSolReserves
      virtualTokenReserves == bondingCurve.virtualTokenReserves
      newVirtualSolReserves == BNadd(virtualSolReserves, solInAfterFee)
  IN  IF BNisZero(newVirtualSolReserves) THEN ArithError
      ELSE LET newVirtualTokenReserves ==
                 BNdiv(BNmul(virtualSolReserves, virtualTokenReserves),
                       newVirtualSolReserves)
           IN  BNsub(virtualTokenReserves, newVirtualTokenReserves)

(***************************************************************************)
(* Account decoding (fetchGlobalState, fetchBondingCurve).  A payload is a *)
(* sequence of bytes; Null is the "not found" result.                      *)
(***************************************************************************)
Null == [null |-> TRUE]

\* Buffer.subarray(start, end): 0-based, end exclusive, clamped to the data
Subarray(data, start, end) ==
  LET e == IF end > Len(data) THEN Len(data) ELSE end
  IN  IF start >= e THEN <<>> ELSE SubSeq(data, start + 1, e)

\* data[offset] === 1: reading past the end yields undefined, hence false
ByteIsOne(data, offset) == offset < Len(data) /\ data[offset + 1] = 1

RECURSIVE MagFromLE(_)
MagFromLE(bytes) ==
  IF bytes = <<>> THEN <<>>
  ELSE MagAdd(MagFromNat(Head(bytes)), MagMulSmall(MagFromLE(Tail(bytes)), 256))

\* new BN(bytes, "le"): an empty or short slice is read as its low bytes
BNfromLE(bytes) == BNmake(0, MagNorm(MagFromLE(bytes)))

Zeros(n) == [i \in 1..n |-> 0]

\* new PublicKey(bytes): any slice of at most 32 bytes is accepted and read
\* as a big-endian number, that is the key with zero bytes in front
PublicKey(bytes) == Zeros(32 - Len(bytes)) \o bytes

\* lines 118-155: the decoding of a global-config payload
decodeGlobalState(data) ==
  [ initialized                 |-> ByteIsOne(data, 8),
    authority                   |-> PublicKey(Subarray(data, 9, 41)),
    feeRecipient                |-> PublicKey(Subarray(data, 41, 73)),
    initialVirtualTokenReserves |-> BNfromLE(Subarray(data, 73, 81)),
    initialVirtualSolReserves   |-> BNfromLE(Subarray(data, 81, 89)),
    initialRealTokenReserves    |-> BNfromLE(Subarray(data, 89, 97)),
    tokenTotalSupply            |-> BNfromLE(Subarray(data, 97, 105)),
    feeBasisPoints              |-> BNfromLE(Subarray(data, 105, 113)) ]

\* fetchGlobalState on the account the read returned (Null: no account)
fetchGlobalState(accountInfo) ==
  IF accountInfo = Null THEN Null ELSE decodeGlobalState(accountInfo.data)

\* lines 172-205: the decoding of a bonding-curve payload
decodeBondingCurve(data) ==
  [ virtualTokenReserves |-> BNfromLE(Subarray(data, 8, 16)),
    virtualSolReserves   |-> BNfromLE(Subarray(data, 16, 24)),
    realTokenReserves    |-> BNfromLE(Subarray(data, 24, 32)),
    realSolReserves      |-> BNfromLE(Subarray(data, 32, 40)),
    tokenTotalSupply     |-> BNfromLE(Subarray(data, 40, 48)),
    complete             |-> ByteIsOne(data, 48),
    creator              |-> PublicKey(Subarray(data, 49, 81)) ]

(***************************************************************************)
(* Addresses, programs and instructions.  A derived address is the tuple   *)
(* of its seeds and deriving program: the derivation is deterministic and  *)
(* distinct seeds give distinct addresses.                                 *)
(***************************************************************************)
PUMPFUN_PROGRAM_ID == "6EF8rrecthR5Dkzon8Nwu78hRvfCKubJ14M5uBEwF6P"
PUMP_FEE_PROGRAM == "pfeeUxB6jkeY1Hxd7CsFCAjcbHA9rWtchMGdZ6VojVZ"
TOKEN_PROGRAM_ID == "TokenkegQfeZyiNwAJbNbGKPFXCWuBvf9Ss623VQ5DA"
TOKEN_2022_PROGRAM_ID == "TokenzQdBNbLqP5VEhdkAS6EPFLC1PHnBqCXEpPxuEb"
ASSOCIATED_TOKEN_PROGRAM_ID == "ATokenGPvbdGVxr1b2hvZbsiqW5xWH25efTNsLJA8knL"
SYSTEM_PROGRAM_ID == "11111111111111111111111111111111"
COMPUTE_BUDGET_PROGRAM_ID == "ComputeBudget111111111111111111111111111111"

DEFAULT_PRIORITY_FEE_MICROLAMPORTS == 50000
MIN_BALANCE_BUFFER == 5000

deriveBondingCurvePDA(mint) == <<"bonding-curve", mint, PUMPFUN_PROGRAM_ID>>
deriveGlobalPDA == <<"global", PUMPFUN_PROGRAM_ID>>
deriveGlobalVolumeAccumulatorPDA == <<"global_volume_accumulator", PUMPFUN_PROGRAM_ID>>
deriveCreatorVaultPDA(creator) == <<"creator-vault", creator, PUMPFUN_PROGRAM_ID>>
deriveUserVolumeAccumulatorPDA(user) == <<"user_volume_accumulator", user, PUMPFUN_PROGRAM_ID>>
deriveFeeConfigPDA == <<"fee_config", PUMPFUN_PROGRAM_ID, PUMP_FEE_PROGRAM>>
deriveEventAuthorityPDA == <<"__event_authority", PUMPFUN_PROGRAM_ID>>

\* getAssociatedTokenAddress(mint, owner, allowOwnerOffCurve, programId):
\* seeds owner, token program, mint under the associated-token program
getAssociatedTokenAddress(mint, owner, programId) ==
  <<"ata", owner, programId, mint, ASSOCIATED_TOKEN_PROGRAM_ID>>

getUserAssociatedTokenAddress(mint, user, tokenProgramId) ==
  getAssociatedTokenAddress(mint, user, tokenProgramId)

getBondingCurveAssociatedTokenAddress(mint, bondingCurve, tokenProgramId) ==
  getAssociatedTokenAddress(mint, bondingCurve, tokenProgramId)

\* getInstructionDiscriminator("buy"): sha256("global:buy")[0..8)
BuyDiscriminator == <<102, 6, 61, 18, 1, 218, 235, 234>>

RangeError == [error |-> "RangeError"]

\* 2^64 in limbs
TwoTo64 == <<1616, 955, 737, 6744, 1844>>

RECURSIVE MagToLE(_, _)
MagToLE(a, n) ==
  IF n = 0 THEN <<>>
  ELSE LET dm == MagDivStep(a, <<256>>, Len(a), <<>>)
       IN  <<MagToNat(dm.r)>> \o MagToLE(MagNorm(dm.q), n - 1)

\* whether buf.writeBigUInt64LE accepts the value: 0 .. 2^64 - 1
FitsUInt64(x) == ~BNisNeg(x) /\ MagCmp(x.words, TwoTo64) < 0

\* buf.writeBigUInt64LE(BigInt(x.toString()), 0): the 8 bytes written
WriteBigUInt64LE(x) == MagToLE(x.words, 8)

\* ComputeBudgetProgram.setComputeUnitPrice
PriorityFeeInstruction ==
  [ programId |-> COMPUTE_BUDGET_PROGRAM_ID, kind |-> "setComputeUnitPrice",
    microLamports |-> DEFAULT_PRIORITY_FEE_MICROLAMPORTS ]

\* createAssociatedTokenAccountInstruction(payer, ata, owner, mint, programId)
createAssociatedTokenAccountInstruction(payer, ata, owner, mint, programId) ==
  [ programId |-> ASSOCIATED_TOKEN_PROGRAM_ID, kind |-> "createAssociatedTokenAccount",
    payer |-> payer, associatedToken |-> ata, owner |-> owner, mint |-> mint,
    tokenProgram |-> programId ]

\* createBurnInstruction(account, mint, owner, amount, multiSigners, programId)
createBurnInstruction(account, mint, owner, amount, multiSigners, programId) ==
  [ programId |-> programId, kind |-> "burn", account |-> account, mint |-> mint,
    owner |-> owner, amount |-> amount,
    signers |-> IF multiSigners = <<>> THEN <<owner>> ELSE multiSigners ]

Key(pubkey, isSigner, isWritable) ==
  [pubkey |-> pubkey, isSigner |-> isSigner, isWritable |-> isWritable]

\* lines 314-349 of buildBuyInstruction: the instruction for the token program
\* read from the mint, or RangeError when an amount does not fit 64 bits
BuyInstruction(mint, user, amount, maxSolCost, globalState, bondingCurve, tokenProgramId) ==
  LET bondingCurvePDA == deriveBondingCurvePDA(mint)
      userATA == getUserAssociatedTokenAddress(mint, user, tokenProgramId)
      bondingCurveATA ==
        getBondingCurveAssociatedTokenAddress(mint, bondingCurvePDA, tokenProgramId)
      amountBuffer == WriteBigUInt64LE(amount)
      maxSolCostBuffer == WriteBigUInt64LE(maxSolCost)
  IN  IF ~FitsUInt64(amount) \/ ~FitsUInt64(maxSolCost) THEN RangeError
      ELSE
      [ programId |-> PUMPFUN_PROGRAM_ID, kind |-> "buy",
        keys |-> << Key(deriveGlobalPDA, FALSE, FALSE),
                    Key(globalState.feeRecipient, FALSE, TRUE),
                    Key(mint, FALSE, FALSE),
                    Key(bondingCurvePDA, FALSE, TRUE),
                    Key(bondingCurveATA, FALSE, TRUE),
                    Key(userATA, FALSE, TRUE),
                    Key(user, TRUE, TRUE),
                    Key(SYSTEM_PROGRAM_ID, FALSE, FALSE),
                    Key(tokenProgramId, FALSE, FALSE),
                    Key(deriveCreatorVaultPDA(bondingCurve.creator), FALSE, TRUE),
                    Key(deriveEventAuthorityPDA, FALSE, FALSE),
                    Key(PUMPFUN_PROGRAM_ID, FALSE, FALSE),
                    Key(deriveGlobalVolumeAccumulatorPDA, FALSE, TRUE),
                    Key(deriveUserVolumeAccumulatorPDA(user), FALSE, TRUE),
                    Key(deriveFeeConfigPDA, FALSE, FALSE),
                    Key(PUMP_FEE_PROGRAM, FALSE, FALSE) >>,
        data |-> BuyDiscriminator \o amountBuffer \o maxSolCostBuffer ]

(***************************************************************************)
(* The network: the accounts as seen at the "confirmed" and at the         *)
(* "finalized" commitment level, and the wallet's balance.                 *)
(***************************************************************************)
Wallet == <<"wallet", "W">>
M1 == <<"mint", "M1">>
M2 == <<"mint", "M2">>
M3 == <<"mint", "M3">>
Mints == {M1, M2, M3}
TokenPrograms == {TOKEN_PROGRAM_ID, TOKEN_2022_PROGRAM_ID}

Addresses ==
  {deriveGlobalPDA} \cup Mints \cup {deriveBondingCurvePDA(m) : m \in Mints}
    \cup {getAssociatedTokenAddress(m, Wallet, p) : m \in Mints, p \in TokenPrograms}

\* the accounts whose finalized view can lag behind the confirmed one
CurveAddresses == {deriveBondingCurvePDA(m) : m \in Mints}

Account(data, owner) == [data |-> data, owner |-> owner]

KeyBytes(b) == [i \in 1..32 |-> b]
AccountDiscriminator == <<1, 2, 3, 4, 5, 6, 7, 8>>
LE8(n) == MagToLE(MagFromNat(n), 8)
Flag(b) == IF b THEN <<1>> ELSE <<0>>

\* a global-config payload in the layout fetchGlobalState reads
GlobalPayload(feeBasisPoints) ==
  AccountDiscriminator \o <<1>> \o KeyBytes(170) \o KeyBytes(187)
    \o MagToLE(<<0, 0, 0, 1073>>, 8) \o MagToLE(<<0, 0, 300>>, 8)
    \o MagToLE(<<0, 0, 0, 7931>>, 8) \o MagToLE(<<0, 0, 0, 0, 1>>, 8)
    \o LE8(feeBasisPoints)

\* a bonding-curve payload in the layout fetchBondingCurve reads
CurvePayload(virtualToken, virtualSol, realToken, realSol, complete) ==
  AccountDiscriminator \o MagToLE(virtualToken, 8) \o MagToLE(virtualSol, 8)
    \o MagToLE(realToken, 8) \o MagToLE(realSol, 8) \o MagToLE(<<0, 0, 0, 0, 1>>, 8)
    \o Flag(complete) \o KeyBytes(204)

GlobalAccount == Account(GlobalPayload(100), PUMPFUN_PROGRAM_ID)

\* what the market program makes of a curve over time: created, traded, migrated
CurveTimeline ==
  << Account(CurvePayload(<<0, 0, 0, 1073>>, <<0, 0, 300>>, <<0, 0, 0, 7931>>, <<>>, FALSE),
             PUMPFUN_PROGRAM_ID),
     Account(CurvePayload(<<0, 8000, 6774, 1038>>, <<0, 0, 310>>, <<0, 8000, 6774, 7586>>,
                          <<0, 0, 10>>, FALSE), PUMPFUN_PROGRAM_ID),
     Account(CurvePayload(<<0, 0, 0, 279>>, <<0, 0, 1150>>, <<>>, <<0, 0, 850>>, TRUE),
             PUMPFUN_PROGRAM_ID) >>

InitialAccounts(global, held) ==
  [a \in Addresses |->
     IF a = deriveGlobalPDA THEN global
     ELSE IF a \in held THEN Account(<<>>, TOKEN_PROGRAM_ID)
     ELSE IF a = M1 THEN Account(<<>>, TOKEN_PROGRAM_ID)
     ELSE IF a = M2 THEN Account(<<>>, TOKEN_2022_PROGRAM_ID)
     ELSE IF a \in {deriveBondingCurvePDA(M2), deriveBondingCurvePDA(M3)}
          THEN CurveTimeline[1]
     ELSE Null]

\* connection.getAccountInfo(address, commitment); the connection's default
\* commitment is "confirmed"
getAccountInfo(conf, fin, address, commitment) ==
  IF commitment = "finalized" /\ address \in DOMAIN fin THEN fin[address]
  ELSE conf[address]

(***************************************************************************)
(* State.  confirmed/finalized/balance/curveStep are the network; calls    *)
(* holds the locals and position of every buyToken/burnTokens call; pin,   *)
(* pout and din, dout are the input and result of the pricing function     *)
(* and of the decoders when they are exercised on their own.               *)
(***************************************************************************)
VARIABLES confirmed, finalized, balance, curveStep, calls, pin, pout, din, dout

vars == <<confirmed, finalized, balance, curveStep, calls, pin, pout, din, dout>>
netVars == <<confirmed, finalized, balance, curveStep>>
pureVars == <<pin, pout, din, dout>>

\* two calls can be in flight at once
CallIds == {1, 2}

NoNumber == 0 - 1

\* Math.floor(solAmount * 1e9) for solAmount = n/512 SOL (exact in binary
\* floating point: 1e9/512 = 1953125)
SolAmountLamports(solAmount512) == solAmount512 * 1953125

\* Math.floor(solAmountLamports * (1 + slippagePercent / 100)), for the
\* slippage percentages whose factor is exact in binary (0, 25, 50, 100)
MaxSolCostNumber(solAmountLamports, slippagePercent) ==
  (solAmountLamports * (100 + slippagePercent)) \div 100

\* the calls the model issues: parameters of buyToken and of burnTokens;
\* privateKey is the key material found in the parameter or the environment
BuyRequest(mint, solAmount512, slippagePercent, privateKey) ==
  [ op |-> "buy", mintAddress |-> mint, solAmount512 |-> solAmount512,
    slippagePercent |-> slippagePercent, tokenAmount |-> 0, privateKey |-> privateKey ]
BurnRequest(mint, tokenAmount, privateKey) ==
  [ op |-> "burn", mintAddress |-> mint, solAmount512 |-> 0,
    slippagePercent |-> 0, tokenAmount |-> tokenAmount, privateKey |-> privateKey ]

MaxSolAmount512 == 1

Requests ==
  {BuyRequest(M1, n, sl, "valid") : n \in 1..MaxSolAmount512, sl \in {0, 50}}
    \cup {BuyRequest(M2, 1, 0, "valid"), BuyRequest(M3, 1, 0, "valid"),
          BuyRequest(M1, 1, 0, "missing"), BurnRequest(M1, 1000000, "malformed"),
          BurnRequest(M1, 1000000, "valid"), BurnRequest(M2, 1000000, "valid")}

BalanceSet == {2934686, 2934687}

IdleCall ==
  [ pc |-> "idle", request |-> Null, globalState |-> Null, bondingCurveData |-> Null,
    tokenAmount |-> Null, maxSolCost |-> Null, balance |-> NoNumber,
    tokenProgramId |-> "", instructions |-> <<>>, netOps |-> <<>>, sent |-> <<>>,
    error |-> "", signature |-> "" ]

Throw(call, message) == [call EXCEPT !.pc = "failed", !.error = message]

\* the call's record of its network operations, in order: the operation, the
\* address and commitment level it names and whether it returned an account
NetOp(call, name, address, commitment, found) ==
  [call EXCEPT !.netOps = @ \o <<[op |-> name, address |-> address,
                                  commitment |-> commitment, found |-> found]>>]

(***************************************************************************)
(* buyToken and burnTokens, one action per network operation of a call     *)
(* (each await is a point where other calls and the network may move).     *)
(***************************************************************************)

\* lines 378-387 (buyToken), 477-486 (burnTokens): the key material
Start(c, req) ==
  /\ calls[c].pc = "idle"
  /\ \A d \in CallIds : d < c => calls[d].pc # "idle"
  /\ LET call == [calls[c] EXCEPT !.request = req]
     IN  calls' = [calls EXCEPT ![c] =
           IF req.privateKey = "missing"
           THEN Throw(call, "Private key is required")
           ELSE IF req.privateKey = "malformed"
           THEN Throw(call, "Invalid private key format")
           ELSE [call EXCEPT !.pc = IF req.op = "buy" THEN "fetchGlobalState"
                                    ELSE "burnAccountInfo"]]
  /\ UNCHANGED <<netVars, pureVars>>

\* lines 390-393
FetchGlobalState(c) ==
  /\ calls[c].pc = "fetchGlobalState"
  /\ LET globalState ==
           fetchGlobalState(getAccountInfo(confirmed, finalized, deriveGlobalPDA, "confirmed"))
         call == NetOp(calls[c], "getAccountInfo", deriveGlobalPDA, "confirmed",
                       globalState # Null)
     IN  calls' = [calls EXCEPT ![c] =
           IF globalState = Null THEN Throw(call, "Global state not found")
           ELSE [call EXCEPT !.pc = "fetchBondingCurveFinalized",
                             !.globalState = globalState]]
  /\ UNCHANGED <<netVars, pureVars>>

\* mutant: the completion flag of the curve is not checked
AfterFetchBondingCurve_NoCompleteCheck(call0, bondingCurveData) ==
  LET call == [call0 EXCEPT !.bondingCurveData = bondingCurveData]
      solAmountLamports == SolAmountLamports(call.request.solAmount512)
      tokenAmount ==
        calculateTokensOut(bondingCurveData, BNfromNumber(solAmountLamports),
                           call.globalState.feeBasisPoints)
  IN  IF IsError(tokenAmount) THEN Throw(call, tokenAmount.error)
      ELSE [call EXCEPT !.pc = "getBalance",
                        !.tokenAmount = tokenAmount,
                        !.maxSolCost =
                          BNfromNumber(MaxSolCostNumber(solAmountLamports,
                                                        call.request.slippagePercent))]

\* lines 400-409: what buyToken does with the decoded curve before its next
\* network operation
AfterFetchBondingCurve(call0, bondingCurveData) ==
  LET call == [call0 EXCEPT !.bondingCurveData = bondingCurveData] IN
  IF bondingCurveData.complete
  THEN Throw(call, "Bonding curve is complete - token has graduated")
  ELSE LET solAmountLamports == SolAmountLamports(call.request.solAmount512)
           solAmountBN == BNfromNumber(solAmountLamports)
           maxSolCost ==
             BNfromNumber(MaxSolCostNumber(solAmountLamports, call.request.slippagePercent))
           tokenAmount ==
             calculateTokensOut(bondingCurveData, solAmountBN, call.globalState.feeBasisPoints)
       IN  IF IsError(tokenAmount) THEN Throw(call, tokenAmount.error)
           ELSE [call EXCEPT !.pc = "getBalance",
                             !.tokenAmount = tokenAmount,
                             !.maxSolCost = maxSolCost]

\* mutant: the first read is made at "confirmed"
FetchBondingCurveFinalized_ConfirmedFirst(c) ==
  /\ calls[c].pc = "fetchBondingCurveFinalized"
  /\ LET address == deriveBondingCurvePDA(calls[c].request.mintAddress)
         accountInfo == getAccountInfo(confirmed, finalized, address, "confirmed")
         call == NetOp(calls[c], "getAccountInfo", address, "confirmed", accountInfo # Null)
     IN  calls' = [calls EXCEPT ![c] =
           IF accountInfo = Null THEN [call EXCEPT !.pc = "fetchBondingCurveConfirmed"]
           ELSE AfterFetchBondingCurve(call, decodeBondingCurve(accountInfo.data))]
  /\ UNCHANGED <<netVars, pureVars>>

\* mutant: a curve already decoded by another call for the same mint is
\* used instead of the account just read
FetchBondingCurveFinalized_SharedCache(c) ==
  /\ calls[c].pc = "fetchBondingCurveFinalized"
  /\ LET address == deriveBondingCurvePDA(calls[c].request.mintAddress)
         accountInfo == getAccountInfo(confirmed, finalized, address, "finalized")
         call == NetOp(calls[c], "getAccountInfo", address, "finalized", accountInfo # Null)
         cached == {d \in CallIds : /\ d # c /\ calls[d].bondingCurveData # Null
                                    /\ calls[d].request.mintAddress =
                                         calls[c].request.mintAddress}
     IN  calls' = [calls EXCEPT ![c] =
           IF accountInfo = Null THEN [call EXCEPT !.pc = "fetchBondingCurveConfirmed"]
           ELSE IF cached # {}
           THEN AfterFetchBondingCurve(call, calls[CHOOSE d \in cached : TRUE].bondingCurveData)
           ELSE AfterFetchBondingCurve(call, decodeBondingCurve(accountInfo.data))]
  /\ UNCHANGED <<netVars, pureVars>>

\* line 163: the first read of fetchBondingCurve
FetchBondingCurveFinalized(c) ==
  /\ calls[c].pc = "fetchBondingCurveFinalized"
  /\ LET address == deriveBondingCurvePDA(calls[c].request.mintAddress)
         accountInfo == getAccountInfo(confirmed, finalized, address, "finalized")
         call == NetOp(calls[c], "getAccountInfo", address, "finalized", accountInfo # Null)
     IN  calls' = [calls EXCEPT ![c] =
           IF accountInfo = Null THEN [call EXCEPT !.pc = "fetchBondingCurveConfirmed"]
           ELSE AfterFetchBondingCurve(call, decodeBondingCurve(accountInfo.data))]
  /\ UNCHANGED <<netVars, pureVars>>

\* lines 164-170, 396-398: the second read of fetchBondingCurve
FetchBondingCurveConfirmed(c) ==
  /\ calls[c].pc = "fetchBondingCurveConfirmed"
  /\ LET address == deriveBondingCurvePDA(calls[c].request.mintAddress)
         accountInfo == getAccountInfo(confirmed, finalized, address, "confirmed")
         call == NetOp(calls[c], "getAccountInfo", address, "confirmed", accountInfo # Null)
     IN  calls' = [calls EXCEPT ![c] =
           IF accountInfo = Null THEN Throw(call, "Bonding curve not found")
           ELSE AfterFetchBondingCurve(call, decodeBondingCurve(accountInfo.data))]
  /\ UNCHANGED <<netVars, pureVars>>

\* mutant: the minimum-balance buffer is left out of the comparison
InsufficientBalance_NoBuffer(bal, maxSolCost) == bal < BNtoNumber(maxSolCost)

\* line 412: the fast-fail on the wallet balance
InsufficientBalance(bal, maxSolCost) ==
  bal < BNtoNumber(maxSolCost) + MIN_BALANCE_BUFFER

\* lines 411-423
GetBalance(c) ==
  /\ calls[c].pc = "getBalance"
  /\ LET call == [NetOp(calls[c], "getBalance", Wallet, "confirmed", TRUE)
                    EXCEPT !.balance = balance]
     IN  calls' = [calls EXCEPT ![c] =
           IF InsufficientBalance(balance, call.maxSolCost)
           THEN Throw(call, "Insufficient balance")
           ELSE [call EXCEPT !.pc = "createATAMintInfo",
                             !.instructions = <<PriorityFeeInstruction>>]]
  /\ UNCHANGED <<netVars, pureVars>>

\* lines 241-247 of createUserTokenAccountIfNeeded
CreateATAMintInfo(c) ==
  /\ calls[c].pc = "createATAMintInfo"
  /\ LET mint == calls[c].request.mintAddress
         mintInfo == getAccountInfo(confirmed, finalized, mint, "confirmed")
         call == NetOp(calls[c], "getAccountInfo", mint, "confirmed", mintInfo # Null)
     IN  calls' = [calls EXCEPT ![c] =
           IF mintInfo = Null THEN Throw(call, "Mint account does not exist")
           ELSE [call EXCEPT !.pc = "userTokenAccountExists",
                             !.tokenProgramId = mintInfo.owner]]
  /\ UNCHANGED <<netVars, pureVars>>

\* mutant: the account creation is added whether or not the account exists
UserTokenAccountExists_AlwaysCreates(c) ==
  /\ calls[c].pc = "userTokenAccountExists"
  /\ LET mint == calls[c].request.mintAddress
         tokenProgramId == calls[c].tokenProgramId
         ata == getUserAssociatedTokenAddress(mint, Wallet, tokenProgramId)
         exists == getAccountInfo(confirmed, finalized, ata, "confirmed") # Null
         call == NetOp(calls[c], "getAccountInfo", ata, "confirmed", exists)
     IN  calls' = [calls EXCEPT ![c] =
           [call EXCEPT !.pc = "buildBuyMintInfo",
                        !.instructions =
                          @ \o <<createAssociatedTokenAccountInstruction(
                                   Wallet, ata, Wallet, mint, tokenProgramId)>>]]
  /\ UNCHANGED <<netVars, pureVars>>

\* lines 249-261 (with userTokenAccountExists, 230-232) and 426-428
UserTokenAccountExists(c) ==
  /\ calls[c].pc = "userTokenAccountExists"
  /\ LET mint == calls[c].request.mintAddress
         tokenProgramId == calls[c].tokenProgramId
         ata == getUserAssociatedTokenAddress(mint, Wallet, tokenProgramId)
         exists == getAccountInfo(confirmed, finalized, ata, "confirmed") # Null
         call == NetOp(calls[c], "getAccountInfo", ata, "confirmed", exists)
     IN  calls' = [calls EXCEPT ![c] =
           [call EXCEPT !.pc = "buildBuyMintInfo",
                        !.instructions =
                          IF exists THEN @
                          ELSE @ \o <<createAssociatedTokenAccountInstruction(
                                        Wallet, ata, Wallet, mint, tokenProgramId)>>]]
  /\ UNCHANGED <<netVars, pureVars>>

\* lines 305-349 of buildBuyInstruction and line 440
BuildBuyMintInfo(c) ==
  /\ calls[c].pc = "buildBuyMintInfo"
  /\ LET mint == calls[c].request.mintAddress
         mintInfo == getAccountInfo(confirmed, finalized, mint, "confirmed")
         call == NetOp(calls[c], "getAccountInfo", mint, "confirmed", mintInfo # Null)
         buyInstruction ==
           BuyInstruction(mint, Wallet, call.tokenAmount, call.maxSolCost,
                          call.globalState, call.bondingCurveData, mintInfo.owner)
     IN  calls' = [calls EXCEPT ![c] =
           IF mintInfo = Null THEN Throw(call, "Mint account does not exist")
           ELSE IF IsError(buyInstruction) THEN Throw(call, buyInstruction.error)
           ELSE [call EXCEPT !.pc = "send",
                             !.instructions = @ \o <<buyInstruction>>]]
  /\ UNCHANGED <<netVars, pureVars>>

\* mutant: the burn is built without checking that the token account exists
BurnAccountInfo_NoExistenceCheck(c) ==
  /\ calls[c].pc = "burnAccountInfo"
  /\ LET mint == calls[c].request.mintAddress
         tokenAccount == getAssociatedTokenAddress(mint, Wallet, TOKEN_PROGRAM_ID)
         tokenAccountInfo == getAccountInfo(confirmed, finalized, tokenAccount, "confirmed")
         call == NetOp(calls[c], "getAccountInfo", tokenAccount, "confirmed",
                       tokenAccountInfo # Null)
     IN  calls' = [calls EXCEPT ![c] =
           [call EXCEPT !.pc = "send",
                        !.instructions =
                          << PriorityFeeInstruction,
                             createBurnInstruction(tokenAccount, mint, Wallet,
                               call.request.tokenAmount, <<>>, TOKEN_PROGRAM_ID) >>]]
  /\ UNCHANGED <<netVars, pureVars>>

\* lines 489-519 of burnTokens: the token account is derived with the
\* default token program of getAssociatedTokenAddress
BurnAccountInfo(c) ==
  /\ calls[c].pc = "burnAccountInfo"
  /\ LET mint == calls[c].request.mintAddress
         tokenAccount == getAssociatedTokenAddress(mint, Wallet, TOKEN_PROGRAM_ID)
         tokenAccountInfo == getAccountInfo(confirmed, finalized, tokenAccount, "confirmed")
         call == NetOp(calls[c], "getAccountInfo", tokenAccount, "confirmed",
                       tokenAccountInfo # Null)
     IN  calls' = [calls EXCEPT ![c] =
           IF tokenAccountInfo = Null
           THEN Throw(call, "Token account does not exist. You don't have any tokens to burn.")
           ELSE [call EXCEPT !.pc = "send",
                             !.instructions =
                               << PriorityFeeInstruction,
                                  createBurnInstruction(tokenAccount, mint, Wallet,
                                    call.request.tokenAmount, <<>>, TOKEN_PROGRAM_ID) >>]]
  /\ UNCHANGED <<netVars, pureVars>>

(***************************************************************************)
(* Submission.  sendAndConfirmTransaction returns a signature or throws;   *)
(* what a landed transaction does to the accounts is the network's part.   *)
(***************************************************************************)
InstructionsOfKind(instructions, kind) ==
  {i \in 1..Len(instructions) : instructions[i].kind = kind}

\* whether the network can execute the transaction: account creation is
\* rejected for an existing account, and a buy or burn needs the token
\* account it names (possibly created earlier in the same transaction)
CanLand(conf, instructions) ==
  \A i \in 1..Len(instructions) :
    LET ix == instructions[i]
        createdBefore ==
          {instructions[j].associatedToken :
             j \in {k \in 1..(i - 1) : instructions[k].kind = "createAssociatedTokenAccount"}}
    IN  /\ ix.kind = "createAssociatedTokenAccount" =>
             /\ conf[ix.associatedToken] = Null
             /\ conf[ix.mint] # Null /\ conf[ix.mint].owner = ix.tokenProgram
        /\ ix.kind = "buy" =>
             ix.keys[6].pubkey \in createdBefore \/ conf[ix.keys[6].pubkey] # Null
        /\ ix.kind = "burn" =>
             conf[ix.account] # Null /\ conf[ix.account].owner = ix.programId

\* the accounts after the transaction landed
Landed(conf, instructions) ==
  [a \in Addresses |->
     IF \E i \in InstructionsOfKind(instructions, "createAssociatedTokenAccount") :
          instructions[i].associatedToken = a
     THEN Account(<<>>, conf[instructions[2].mint].owner)
     ELSE conf[a]]

\* mutant: a failed submission is submitted once more
Send_RetriesOnFailure(c) ==
  /\ calls[c].pc = "send"
  /\ LET call == [NetOp(calls[c], "sendAndConfirmTransaction", Wallet, "confirmed", TRUE)
                    EXCEPT !.sent = @ \o <<[instructions |-> calls[c].instructions,
                                            signers |-> <<Wallet>>]>>]
     IN  \/ /\ CanLand(confirmed, call.instructions)
            /\ calls' = [calls EXCEPT ![c] = [call EXCEPT !.pc = "done",
                                                          !.signature = "signature"]]
            /\ confirmed' = Landed(confirmed, call.instructions)
         \/ /\ calls' = [calls EXCEPT ![c] =
                           IF Len(call.sent) < 2 THEN call
                           ELSE Throw(call, "Transaction failed")]
            /\ confirmed' = confirmed
  /\ UNCHANGED <<finalized, balance, curveStep, pureVars>>

\* lines 443-459 (buyToken), 522-537 (burnTokens)
Send(c) ==
  /\ calls[c].pc = "send"
  /\ LET call == [NetOp(calls[c], "sendAndConfirmTransaction", Wallet, "confirmed", TRUE)
                    EXCEPT !.sent = @ \o <<[instructions |-> calls[c].instructions,
                                            signers |-> <<Wallet>>]>>]
     IN  \/ /\ CanLand(confirmed, call.instructions)
            /\ calls' = [calls EXCEPT ![c] = [call EXCEPT !.pc = "done",
                                                          !.signature = "signature"]]
            /\ confirmed' = Landed(confirmed, call.instructions)
         \/ /\ calls' = [calls EXCEPT ![c] = Throw(call, "Transaction failed")]
            /\ confirmed' = confirmed
  /\ UNCHANGED <<finalized, balance, curveStep, pureVars>>

\* the market program creates, trades on and finally migrates the curve of M1
MarketMoves ==
  /\ curveStep < Len(CurveTimeline)
  /\ curveStep' = curveStep + 1
  /\ confirmed' = [confirmed EXCEPT ![deriveBondingCurvePDA(M1)] = CurveTimeline[curveStep + 1]]
  /\ UNCHANGED <<finalized, balance, calls, pureVars>>

\* the finalized view catches up with the confirmed one
Finalize ==
  /\ finalized[deriveBondingCurvePDA(M1)] # confirmed[deriveBondingCurvePDA(M1)]
  /\ finalized' = [finalized EXCEPT ![deriveBondingCurvePDA(M1)] =
                     confirmed[deriveBondingCurvePDA(M1)]]
  /\ UNCHANGED <<confirmed, balance, curveStep, calls, pureVars>>

\* the mint account of M2 changes hands: its issuer closes the mint and
\* creates it again at the same address under the other token program.  The
\* model lets this happen while a call on M2 is between its two reads of the
\* mint account (lines 241 and 305), where the call can tell the difference.
MintReissued ==
  /\ confirmed[M2] # Null /\ confirmed[M2].owner = TOKEN_2022_PROGRAM_ID
  /\ \E c \in CallIds :
       /\ calls[c].pc \in {"userTokenAccountExists", "buildBuyMintInfo"}
       /\ calls[c].request.mintAddress = M2
  /\ confirmed' = [confirmed EXCEPT ![M2] = Account(<<>>, TOKEN_PROGRAM_ID)]
  /\ UNCHANGED <<finalized, balance, curveStep, calls, pureVars>>

PureIdle == pin = Null /\ pout = Null /\ din = Null /\ dout = Null

Init ==
  /\ \E global \in {Null, GlobalAccount},
        held \in SUBSET {getAssociatedTokenAddress(M1, Wallet, TOKEN_PROGRAM_ID)} :
       /\ confirmed = InitialAccounts(global, held)
       /\ finalized = [a \in CurveAddresses |-> confirmed[a]]
  /\ balance \in BalanceSet
  /\ curveStep = 0
  /\ calls = [c \in CallIds |-> IdleCall]
  /\ PureIdle

Next ==
  \/ \E c \in CallIds, req \in Requests : Start(c, req)
  \/ \E c \in CallIds : FetchGlobalState(c)
  \/ \E c \in CallIds : FetchBondingCurveFinalized(c)
  \/ \E c \in CallIds : FetchBondingCurveConfirmed(c)
  \/ \E c \in CallIds : GetBalance(c)
  \/ \E c \in CallIds : CreateATAMintInfo(c)
  \/ \E c \in CallIds : UserTokenAccountExists(c)
  \/ \E c \in CallIds : BuildBuyMintInfo(c)
  \/ \E c \in CallIds : BurnAccountInfo(c)
  \/ \E c \in CallIds : Send(c)
  \/ MarketMoves
  \/ Finalize
  \/ MintReissued

Spec == Init /\ [][Next]_vars

(***************************************************************************)
(* The pricing function on its own: an input is drawn, Calculate applies   *)
(* calculateTokensOut to it.                                               *)
(***************************************************************************)
MaxReserve == 4
MaxSolIn == 6

FeeRates == {0, 1, 100, 2500, 5000, 9999, 10000, 10001, 20000, 40000}

PricingInput(virtualSol, virtualToken, solIn, feeBasisPoints) ==
  [ bondingCurve |-> [virtualSolReserves |-> virtualSol,
                      virtualTokenReserves |-> virtualToken],
    solIn |-> solIn, feeBasisPoints |-> feeBasisPoints ]

\* the curve of the documented scenario: 30_000_000_000 lamports against
\* 1_073_000_000_000_000 tokens, fee 100 basis points, 50_000_000 lamports in
ScenarioInput ==
  PricingInput(BNmake(0, <<0, 0, 300>>), BNmake(0, <<0, 0, 0, 1073>>),
               BNfromNumber(50000000), BNfromNumber(100))

PricingInputs ==
  {PricingInput(BNfromNumber(vs), BNfromNumber(vt), BNfromNumber(s), BNfromNumber(f)) :
     vs \in 0..MaxReserve, vt \in 0..MaxReserve, s \in 0..MaxSolIn, f \in FeeRates}
    \cup {ScenarioInput}

NetIdle ==
  /\ confirmed = InitialAccounts(Null, {})
  /\ finalized = [a \in CurveAddresses |-> confirmed[a]]
  /\ balance = 0
  /\ curveStep = 0
  /\ calls = [c \in CallIds |-> IdleCall]

InitPricing ==
  /\ NetIdle
  /\ pin \in PricingInputs
  /\ pout = Null /\ din = Null /\ dout = Null

Calculate ==
  /\ pin # Null /\ pout = Null
  /\ pout' = [ tokensOut |-> calculateTokensOut(pin.bondingCurve, pin.solIn,
                                                pin.feeBasisPoints),
               fee |-> FeeOf(pin.solIn, pin.feeBasisPoints),
               solInAfterFee |-> SolInAfterFee(pin.solIn, pin.feeBasisPoints) ]
  /\ UNCHANGED <<netVars, calls, pin, din, dout>>

NextPricing == Calculate

SpecPricing == InitPricing /\ [][NextPricing]_vars

(***************************************************************************)
(* The decoders on their own: a payload of any length up to the full       *)
(* layout is the data of the account the reads return.                     *)
(***************************************************************************)
\* fetchBondingCurve on the results of its two reads (finalized, confirmed)
fetchBondingCurve(finalizedInfo, confirmedInfo) ==
  LET accountInfo == IF finalizedInfo = Null THEN confirmedInfo ELSE finalizedInfo
  IN  IF accountInfo = Null THEN Null ELSE decodeBondingCurve(accountInfo.data)

Prefixes(payload) == {SubSeq(payload, 1, n) : n \in 0..Len(payload)}

DecodeInputs ==
  {[kind |-> "global", account |-> Account(d, PUMPFUN_PROGRAM_ID)] :
     d \in Prefixes(GlobalAccount.data)}
    \cup {[kind |-> "curve", account |-> Account(d, PUMPFUN_PROGRAM_ID)] :
            d \in Prefixes(CurveTimeline[3].data)}
    \cup {[kind |-> k, account |-> Null] : k \in {"global", "curve"}}

InitDecode ==
  /\ NetIdle
  /\ din \in DecodeInputs
  /\ dout = Null /\ pin = Null /\ pout = Null

DecodeGlobal ==
  /\ din # Null /\ din.kind = "global" /\ dout = Null
  /\ dout' = [result |-> fetchGlobalState(din.account)]
  /\ UNCHANGED <<netVars, calls, pin, pout, din>>

DecodeCurve ==
  /\ din # Null /\ din.kind = "curve" /\ dout = Null
  /\ dout' = [result |-> fetchBondingCurve(Null, din.account)]
  /\ UNCHANGED <<netVars, calls, pin, pout, din>>

NextDecode == DecodeGlobal \/ DecodeCurve

SpecDecode == InitDecode /\ [][NextDecode]_vars

(***************************************************************************)
(* Properties of the pricing function (checked under SpecPricing).         *)
(***************************************************************************)
Priced == pin # Null /\ pout # Null
IsScenario == pin = ScenarioInput

\* the inputs as integers (all inputs but the scenario's fit TLC's integers)
InVirtualSol == BNtoNumber(pin.bondingCurve.virtualSolReserves)
InVirtualToken == BNtoNumber(pin.bondingCurve.virtualTokenReserves)
InSolIn == BNtoNumber(pin.solIn)
InFeeBasisPoints == BNtoNumber(pin.feeBasisPoints)

\* floor(a / b) for b # 0
FloorDiv(a, b) == IF b > 0 THEN a \div b ELSE (0 - a) \div (0 - b)

\* the reference formula on exact integers
RefFee == (InSolIn * InFeeBasisPoints) \div 10000
RefNet == InSolIn - RefFee
RefTokensOut == InVirtualToken - FloorDiv(InVirtualSol * InVirtualToken, InVirtualSol + RefNet)

\* positive reserves, a fee rate in [0, 10000]
ValidCurveAndFee ==
  /\ BNcmp(pin.bondingCurve.virtualSolReserves, BNfromNumber(0)) > 0
  /\ BNcmp(pin.bondingCurve.virtualTokenReserves, BNfromNumber(0)) > 0
  /\ BNcmp(pin.feeBasisPoints, BNfromNumber(0)) >= 0
  /\ BNcmp(pin.feeBasisPoints, BNfromNumber(10000)) <= 0

\* the net input solIn - floor(solIn * feeBasisPoints / 10000) of the input
NetOfInput ==
  BNsub(pin.solIn, BNdiv(BNmul(pin.solIn, pin.feeBasisPoints), BNfromNumber(10000)))

\* C6 as stated: for positive reserves, a fee rate in [0, 10000] and
\* solIn > 0 the result t satisfies 0 <= t < virtualTokenReserves.
C6_TokensOutStrictlyBelowReserves ==
  (Priced /\ ValidCurveAndFee /\ BNcmp(pin.solIn, BNfromNumber(0)) > 0) =>
    /\ ~IsError(pout.tokensOut)
    /\ BNcmp(pout.tokensOut, BNfromNumber(0)) >= 0
    /\ BNcmp(pout.tokensOut, pin.bondingCurve.virtualTokenReserves) < 0

\* C6 amended: for positive reserves, a fee rate in [0, 10000] and solIn > 0
\* the result t satisfies 0 <= t <= virtualTokenReserves, and t equals
\* virtualTokenReserves exactly when virtualSolReserves * virtualTokenReserves
\* < virtualSolReserves + netSolIn (the new token reserve floors to zero).
C6_TokensOutWithinReserves ==
  (Priced /\ ValidCurveAndFee /\ BNcmp(pin.solIn, BNfromNumber(0)) > 0) =>
    /\ ~IsError(pout.tokensOut)
    /\ BNcmp(pout.tokensOut, BNfromNumber(0)) >= 0
    /\ BNcmp(pout.tokensOut, pin.bondingCurve.virtualTokenReserves) <= 0
    /\ (BNcmp(pout.tokensOut, pin.bondingCurve.virtualTokenReserves) = 0) <=>
         (BNcmp(BNmul(pin.bondingCurve.virtualSolReserves,
                      pin.bondingCurve.virtualTokenReserves),
                BNadd(pin.bondingCurve.virtualSolReserves, NetOfInput)) < 0)

\* C6 witness: a priced input in the claim's domain, with a fee taken, whose
\* result is the whole virtual token reserve
C6_Witness ==
  /\ Priced /\ ValidCurveAndFee /\ ~IsScenario
  /\ InSolIn > 0 /\ InFeeBasisPoints = 5000 /\ RefFee > 0
  /\ pout.tokensOut = pin.bondingCurve.virtualTokenReserves

\* C7: for positive reserves and a fee rate in [0, 10000], the result for
\* any smaller input solIn1 <= solIn is at most the result for solIn.
C7_MonotoneInSolIn ==
  (Priced /\ ValidCurveAndFee) =>
    \A s1 \in 0..MaxSolIn :
      BNcmp(BNfromNumber(s1), pin.solIn) <= 0 =>
        LET t1 == calculateTokensOut(pin.bondingCurve, BNfromNumber(s1), pin.feeBasisPoints)
        IN  /\ ~IsError(t1) /\ ~IsError(pout.tokensOut)
            /\ BNcmp(t1, pout.tokensOut) <= 0

\* C7 witness: a priced input at a 50% fee for which a smaller input pays a
\* smaller floored fee and yields strictly fewer tokens
C7_Witness ==
  /\ Priced /\ ValidCurveAndFee /\ ~IsScenario /\ InFeeBasisPoints = 5000
  /\ \E s1 \in 0..MaxSolIn :
       /\ s1 < InSolIn
       /\ (s1 * InFeeBasisPoints) \div 10000 < RefFee
       /\ BNcmp(calculateTokensOut(pin.bondingCurve, BNfromNumber(s1), pin.feeBasisPoints),
                pout.tokensOut) < 0

\* C8 as stated: whenever the floored fee exceeds solIn the function fails
\* with an arithmetic error and returns no token amount.
C8_FailsWhenFeeExceedsInput ==
  (Priced /\ ~IsScenario /\ RefFee > InSolIn) => IsError(pout.tokensOut)

\* C9 as stated: for every input on which the reference formula is defined
\* the result equals it (fee, net input and token amount), and the scenario
\* yields fee 500_000 and net input 49_500_000.
C9_EqualsReference ==
  Priced =>
    IF IsScenario
    THEN /\ pout.fee = BNfromNumber(500000)
         /\ pout.solInAfterFee = BNfromNumber(49500000)
         /\ pout.tokensOut = BNmake(0, <<9611, 3356, 7675, 1>>)
    ELSE /\ pout.fee = BNfromNumber(RefFee)
         /\ pout.solInAfterFee = BNfromNumber(RefNet)
         /\ InVirtualSol + RefNet # 0 =>
              /\ ~IsError(pout.tokensOut)
              /\ pout.tokensOut = BNfromNumber(RefTokensOut)

(***************************************************************************)
(* Properties of the decoders (checked under SpecDecode).                  *)
(***************************************************************************)
ExpectedSize(kind) ==
  IF kind = "global" THEN 8 + 1 + 32 + 32 + 5 * 8 ELSE 8 + 5 * 8 + 1 + 32

\* C10 as stated: decoding a payload shorter than the fixed expected size
\* fails with a format error in fetchGlobalState and in fetchBondingCurve.
C10_TruncatedPayloadFails ==
  (din # Null /\ dout # Null /\ din.account # Null
     /\ Len(din.account.data) < ExpectedSize(din.kind)) =>
    IsError(dout.result)

(***************************************************************************)
(* Properties of buyToken and burnTokens (checked under Spec).             *)
(***************************************************************************)
SendOps(call) ==
  {i \in 1..Len(call.netOps) : call.netOps[i].op = "sendAndConfirmTransaction"}

Kinds(instructions) == [i \in 1..Len(instructions) |-> instructions[i].kind]

IsBuy(call) == call.request # Null /\ call.request.op = "buy"
IsBurn(call) == call.request # Null /\ call.request.op = "burn"

NothingToBurn == "Token account does not exist. You don't have any tokens to burn."
Graduated == "Bonding curve is complete - token has graduated"

\* C1: a call submits at most once, the submission is its last network
\* operation, a call that failed a precondition check (any error other than
\* the submission's own) has submitted nothing, and a call whose submission
\* failed ends with that failure.
C1_SingleFinalSubmission ==
  \A c \in CallIds :
    LET call == calls[c]
    IN  /\ Len(call.sent) <= 1
        /\ Cardinality(SendOps(call)) = Len(call.sent)
        /\ \A i \in SendOps(call) : i = Len(call.netOps)
        /\ (call.pc = "failed" /\ call.error # "Transaction failed") => call.sent = <<>>
        /\ call.sent # <<>> =>
             \/ call.pc = "done"
             \/ call.pc = "failed" /\ call.error = "Transaction failed"

\* C1 witness: one call ended with the failure of its single submission
\* while another ended on a precondition check without submitting
C1_Witness ==
  \E c, d \in CallIds :
    /\ calls[c].pc = "failed" /\ calls[c].error = "Transaction failed"
    /\ Len(calls[c].sent) = 1
    /\ calls[d].pc = "failed" /\ calls[d].error = "Insufficient balance"
    /\ calls[d].sent = <<>>

\* C2: a buyToken call that read a bonding curve with complete = true has
\* failed with the graduated error, with an empty instruction list, without
\* reading the balance and without submitting.
C2_CompleteCurveFailsFirst ==
  \A c \in CallIds :
    LET call == calls[c]
    IN  (call.bondingCurveData # Null /\ call.bondingCurveData.complete) =>
          /\ call.pc = "failed" /\ call.error = Graduated
          /\ call.instructions = <<>>
          /\ call.sent = <<>>
          /\ call.balance = NoNumber
          /\ \A i \in 1..Len(call.netOps) : call.netOps[i].op = "getAccountInfo"

\* C2 witness: a call that read a complete curve
C2_Witness ==
  \E c \in CallIds :
    /\ calls[c].bondingCurveData # Null /\ calls[c].bondingCurveData.complete
    /\ calls[c].pc = "failed"

\* the maxSolCost argument in the payload of a submitted buy transaction
PayloadMaxSolCost(tx) ==
  MagToNat(MagFromLE(SubSeq(tx.instructions[Len(tx.instructions)].data, 17, 24)))

\* C3: a buyToken call whose balance read is below maxSolCost + 5000 has
\* failed with the insufficient-funds error and submitted nothing; a call
\* that submitted read a balance of at least maxSolCost + 5000, maxSolCost
\* being the value in the submitted buy payload.
C3_BalanceCoversMaxCost ==
  \A c \in CallIds :
    LET call == calls[c]
    IN  (IsBuy(call) /\ call.balance # NoNumber) =>
          /\ call.balance < BNtoNumber(call.maxSolCost) + 5000 =>
               /\ call.pc = "failed" /\ call.error = "Insufficient balance"
               /\ call.sent = <<>>
          /\ call.sent # <<>> =>
               /\ PayloadMaxSolCost(call.sent[1]) = BNtoNumber(call.maxSolCost)
               /\ call.balance >= PayloadMaxSolCost(call.sent[1]) + 5000

\* C3 witness: a call that failed for being one lamport short of
\* maxSolCost + 5000
C3_Witness ==
  \E c \in CallIds :
    /\ IsBuy(calls[c]) /\ calls[c].error = "Insufficient balance"
    /\ calls[c].balance = BNtoNumber(calls[c].maxSolCost) + 4999

\* C4: a burnTokens call that reads the owner's token account while the
\* network holds no token account of the owner for the mint fails with the
\* nothing-to-burn error, no instruction built and nothing submitted; a
\* burnTokens call that submitted has submitted exactly the priority-fee
\* directive followed by the burn, signed by the owner alone.
C4_BurnNeedsTokenAccount ==
  /\ [][\A c \in CallIds :
          ( /\ calls[c].pc = "burnAccountInfo" /\ calls'[c].pc # "burnAccountInfo"
            /\ \A p \in TokenPrograms :
                 confirmed[getAssociatedTokenAddress(calls[c].request.mintAddress,
                                                     Wallet, p)] = Null ) =>
            /\ calls'[c].pc = "failed" /\ calls'[c].error = NothingToBurn
            /\ calls'[c].instructions = <<>>
            /\ calls'[c].sent = <<>>]_vars
  /\ [](\A c \in CallIds :
          (IsBurn(calls[c]) /\ calls[c].sent # <<>>) =>
            LET tx == calls[c].sent[1]
            IN  /\ Kinds(tx.instructions) = <<"setComputeUnitPrice", "burn">>
                /\ tx.instructions[1] = PriorityFeeInstruction
                /\ tx.instructions[2].mint = calls[c].request.mintAddress
                /\ tx.instructions[2].amount = calls[c].request.tokenAmount
                /\ tx.instructions[2].owner = Wallet
                /\ tx.instructions[2].signers = <<Wallet>>
                /\ tx.signers = <<Wallet>>)

\* C4 witness: one burn failed for want of a token account, another was
\* submitted
C4_Witness ==
  \E c, d \in CallIds :
    /\ IsBurn(calls[c]) /\ calls[c].error = NothingToBurn
    /\ IsBurn(calls[d]) /\ calls[d].pc = "done" /\ Len(calls[d].sent) = 1

\* the call's reads of a token-holding account
TokenAccountReads(call) ==
  {i \in 1..Len(call.netOps) : call.netOps[i].address[1] = "ata"}

\* C5: a buyToken call that submitted checked the buyer's token account
\* once and submitted [priority-fee, create-account, buy] if the check found
\* no account and [priority-fee, buy] if it found one.
C5_InstructionOrder ==
  \A c \in CallIds :
    LET call == calls[c]
    IN  (IsBuy(call) /\ call.sent # <<>>) =>
          /\ Cardinality(TokenAccountReads(call)) = 1
          /\ \A i \in TokenAccountReads(call) :
               Kinds(call.sent[1].instructions) =
                 IF call.netOps[i].found
                 THEN <<"setComputeUnitPrice", "buy">>
                 ELSE <<"setComputeUnitPrice", "createAssociatedTokenAccount", "buy">>

\* C5 witness: one submitted buy carries the account creation, another,
\* which found the account, does not
C5_Witness ==
  \E c, d \in CallIds :
    /\ IsBuy(calls[c]) /\ calls[c].sent # <<>>
    /\ Len(calls[c].sent[1].instructions) = 3
    /\ IsBuy(calls[d]) /\ calls[d].sent # <<>>
    /\ Len(calls[d].sent[1].instructions) = 2

\* the global configuration and the bonding curve as the network holds them
\* in the current state, decoded as a read issued now decodes them
GlobalNow ==
  fetchGlobalState(getAccountInfo(confirmed, finalized, deriveGlobalPDA, "confirmed"))
CurveNow(mint, commitment) ==
  LET accountInfo ==
        getAccountInfo(confirmed, finalized, deriveBondingCurvePDA(mint), commitment)
  IN  IF accountInfo = Null THEN Null ELSE decodeBondingCurve(accountInfo.data)

\* the amounts a buyToken call derives from a request, a curve and a
\* global configuration
TokenAmountOf(request, bondingCurveData, globalState) ==
  calculateTokensOut(bondingCurveData,
                     BNfromNumber(SolAmountLamports(request.solAmount512)),
                     globalState.feeBasisPoints)
MaxSolCostOf(request) ==
  BNfromNumber(MaxSolCostNumber(SolAmountLamports(request.solAmount512),
                                request.slippagePercent))

\* C11: with buyToken calls interleaved, the step of a call that reads the
\* global configuration stores what the network holds at that step, the
\* step that reads the curve stores the curve the network holds at that
\* step, and the completion check and the amounts of the call follow from
\* those two values and the call's own request; once set they never change,
\* a step of one call changes nothing of another call, a call that has not
\* started holds no value, and the token amount a call submits is its own.
C11_OwnSnapshot ==
  /\ [][\A c \in CallIds :
          calls'[c] # calls[c] =>
            /\ \A d \in CallIds \ {c} : calls'[d] = calls[d]
            /\ calls[c].pc = "fetchGlobalState" => calls'[c].globalState = GlobalNow
            /\ calls[c].pc # "fetchGlobalState" =>
                 calls'[c].globalState = calls[c].globalState
            /\ calls[c].pc \notin {"fetchBondingCurveFinalized",
                                   "fetchBondingCurveConfirmed"} =>
                 /\ calls'[c].bondingCurveData = calls[c].bondingCurveData
                 /\ calls'[c].tokenAmount = calls[c].tokenAmount
                 /\ calls'[c].maxSolCost = calls[c].maxSolCost
            /\ \A level \in {"finalized", "confirmed"} :
                 LET mint == calls[c].request.mintAddress
                     curve == CurveNow(mint, level)
                 IN  ( /\ calls[c].pc = IF level = "finalized"
                                        THEN "fetchBondingCurveFinalized"
                                        ELSE "fetchBondingCurveConfirmed"
                       /\ curve # Null ) =>
                       /\ calls'[c].bondingCurveData = curve
                       /\ IF curve.complete
                          THEN calls'[c].error = Graduated /\ calls'[c].tokenAmount = Null
                          ELSE /\ calls'[c].pc = "getBalance"
                               /\ calls'[c].tokenAmount =
                                    TokenAmountOf(calls[c].request, curve,
                                                  calls[c].globalState)
                               /\ calls'[c].maxSolCost = MaxSolCostOf(calls[c].request)]_vars
  /\ [](\A c \in CallIds :
          LET call == calls[c]
          IN  /\ call.pc = "idle" =>
                   /\ call.globalState = Null /\ call.bondingCurveData = Null
                   /\ call.tokenAmount = Null /\ call.maxSolCost = Null
              /\ call.tokenAmount # Null =>
                   /\ call.globalState # Null /\ call.bondingCurveData # Null
                   /\ ~call.bondingCurveData.complete
              /\ (IsBuy(call) /\ call.sent # <<>>) =>
                   LET tx == call.sent[1]
                   IN  BNfromLE(SubSeq(tx.instructions[Len(tx.instructions)].data, 9, 16))
                         = call.tokenAmount)

\* C11 witness: two buys of the same mint for the same amount that read
\* different curve snapshots and computed different token amounts
C11_Witness ==
  \E c, d \in CallIds :
    /\ c # d /\ IsBuy(calls[c]) /\ IsBuy(calls[d])
    /\ calls[c].request = calls[d].request
    /\ calls[c].tokenAmount # Null /\ calls[d].tokenAmount # Null
    /\ calls[c].bondingCurveData # calls[d].bondingCurveData
    /\ calls[c].tokenAmount # calls[d].tokenAmount

\* the call's reads of the bonding-curve account, in order
IsCurveRead(o) == o.address[1] = "bonding-curve"
CurveReads(call) == SelectSeq(call.netOps, IsCurveRead)

\* C12: a call reads the curve first at "finalized"; it reads it a second
\* time, at "confirmed", exactly when the first read returned no account,
\* never more than twice; it reports the curve absent exactly when both
\* reads returned nothing; and when the first read returns an account, the
\* data of that account (not the confirmed one) is what is decoded.
C12_FinalizedThenConfirmed ==
  /\ [](\A c \in CallIds :
          LET call == calls[c]
              reads == CurveReads(call)
          IN  /\ Len(reads) <= 2
              /\ Len(reads) >= 1 =>
                   /\ reads[1].commitment = "finalized"
                   /\ reads[1].found => (Len(reads) = 1 /\ call.bondingCurveData # Null)
                   /\ ~reads[1].found =>
                        \/ Len(reads) = 2
                        \/ call.pc = "fetchBondingCurveConfirmed"
              /\ Len(reads) = 2 =>
                   /\ reads[2].commitment = "confirmed"
                   /\ ~reads[1].found
                   /\ reads[2].found <=> call.bondingCurveData # Null
              /\ call.error = "Bonding curve not found" <=>
                   (Len(reads) = 2 /\ ~reads[1].found /\ ~reads[2].found))
  /\ [][\A c \in CallIds :
          LET address == deriveBondingCurvePDA(calls[c].request.mintAddress)
          IN  ( /\ calls[c].pc = "fetchBondingCurveFinalized"
                /\ calls'[c].pc # "fetchBondingCurveFinalized"
                /\ finalized[address] # Null ) =>
                /\ calls'[c].bondingCurveData = decodeBondingCurve(finalized[address].data)
                /\ calls'[c].pc # "fetchBondingCurveConfirmed"]_vars

\* C12 witness: one call found the curve at its first read while the
\* confirmed account held other data, another found it only at its second
\* read, at "confirmed"
C12_Witness ==
  \E c, d \in CallIds :
    /\ Len(CurveReads(calls[c])) = 1 /\ CurveReads(calls[c])[1].found
    /\ calls[c].request.mintAddress = M1
    /\ calls[c].bondingCurveData = decodeBondingCurve(CurveTimeline[1].data)
    /\ curveStep >= 2
    /\ Len(CurveReads(calls[d])) = 2 /\ CurveReads(calls[d])[2].found

\* the call's reads of the mint account
MintReads(call) ==
  {i \in 1..Len(call.netOps) : call.netOps[i].address = call.request.mintAddress}

MintMissing == "Mint account does not exist"

\* C13 as stated: in a buyToken call that has built its buy action, the
\* token program listed in the buy action, the one the buyer's and the
\* curve's token accounts are derived with and the one named in the
\* create-account instruction are one program, the owner of the mint account
\* read by the call; a call that read no mint account has failed with the
\* mint-missing error and submitted nothing.
C13_TokenProgramFromMint ==
  \A c \in CallIds :
    LET call == calls[c]
        mint == call.request.mintAddress
        n == Len(call.instructions)
    IN  IsBuy(call) =>
          /\ (\E i \in MintReads(call) : ~call.netOps[i].found) =>
               /\ call.pc = "failed" /\ call.error = MintMissing
               /\ call.sent = <<>>
          /\ (n > 0 /\ call.instructions[n].kind = "buy") =>
               LET buy == call.instructions[n]
                   program == call.tokenProgramId
               IN  /\ program \in TokenPrograms
                   /\ buy.keys[9].pubkey = program
                   /\ buy.keys[6].pubkey =
                        getAssociatedTokenAddress(mint, Wallet, program)
                   /\ buy.keys[5].pubkey =
                        getAssociatedTokenAddress(mint, deriveBondingCurvePDA(mint), program)
                   /\ \A i \in InstructionsOfKind(call.instructions,
                                                  "createAssociatedTokenAccount") :
                        /\ call.instructions[i].tokenProgram = buy.keys[9].pubkey
                        /\ call.instructions[i].associatedToken = buy.keys[6].pubkey

\* C14 as stated: for a buy and a burn of the same mint by the wallet, the
\* token account the burn checks and burns from, and the token program of
\* its burn action, are the buyer's token account and the token program of
\* the submitted buy action; and a burn that checks its token account after
\* a buy of that mint has succeeded does not fail for want of the account.
C14_BurnUsesBoughtAccount ==
  /\ [](\A c, d \in CallIds :
          LET buyCall == calls[c]
              burnCall == calls[d]
          IN  ( /\ IsBuy(buyCall) /\ buyCall.sent # <<>>
                /\ IsBurn(burnCall) /\ burnCall.netOps # <<>>
                /\ buyCall.request.mintAddress = burnCall.request.mintAddress ) =>
                LET tx == buyCall.sent[1]
                    buy == tx.instructions[Len(tx.instructions)]
                IN  /\ burnCall.netOps[1].address = buy.keys[6].pubkey
                    /\ burnCall.sent # <<>> =>
                         /\ burnCall.sent[1].instructions[2].account = buy.keys[6].pubkey
                         /\ burnCall.sent[1].instructions[2].programId = buy.keys[9].pubkey)
  /\ [][\A c, d \in CallIds :
          ( /\ IsBuy(calls[c]) /\ calls[c].pc = "done"
            /\ IsBurn(calls[d]) /\ calls[d].pc = "burnAccountInfo"
            /\ calls[c].request.mintAddress = calls[d].request.mintAddress
            /\ calls'[d].pc # "burnAccountInfo" ) =>
            calls'[d].error # NothingToBurn]_vars

====
